---------------------------- MODULE Spec2Model ----------------------------
(***************************************************************************)
(* Three-way merge of JSON trees (src/src/merge.rs).                       *)
(*                                                                         *)
(* three_way_merge(base, a, b) is modelled as a machine with an explicit   *)
(* call stack: one frame per activation of the object branch of            *)
(* three_way_merge_recursive.  The `for key in keys` loop iterates a       *)
(* HashSet, so the model takes the remaining keys in any order.            *)
(* log::error! calls append to `log`.                                      *)
(***************************************************************************)
EXTENDS Integers, Sequences, FiniteSets, TLC

VARIABLES base, a, b, pc, stack, log, result

vars == <<base, a, b, pc, stack, log, result>>

(***************************************************************************)
(* Bounds of the explored input space.                                     *)
(***************************************************************************)
NumKeys == 2
NumLeaves == 3
MaxNodes == 3

KeyNames == <<"f", "g", "d", "e", "h">>
Keys == {KeyNames[i] : i \in 1..NumKeys}

(***************************************************************************)
(* serde_json::Value.  A non-object value (null, bool, number, string,     *)
(* array) is an opaque leaf compared by equality; an object is a finite    *)
(* map from keys to values.  NoneV is Option::None.                        *)
(***************************************************************************)
Leaf(n) == [kind |-> "leaf", v |-> n]
Obj(m) == [kind |-> "obj", m |-> m]
NoneV == [kind |-> "none"]
EmptyMap == <<>>

Leaves == {Leaf(n) : n \in 1..NumLeaves}

is_object(v) == v.kind = "obj"

\* Map::get: Some(value) or None
get(m, k) == IF k \in DOMAIN m THEN m[k] ELSE NoneV

\* Map::insert
insert(m, k, v) == [x \in (DOMAIN m) \cup {k} |-> IF x = k THEN v ELSE m[x]]

RECURSIVE SumSizes(_, _)
RECURSIVE Size(_)
Size(t) == IF is_object(t) THEN 1 + SumSizes(t.m, DOMAIN t.m) ELSE 1
SumSizes(m, S) ==
    IF S = {} THEN 0
    ELSE LET k == CHOOSE x \in S : TRUE
         IN Size(m[k]) + SumSizes(m, S \ {k})

PartialMaps(T) == UNION {[S -> T] : S \in SUBSET Keys}

RECURSIVE TreesUpTo(_)
TreesUpTo(n) ==
    IF n <= 0 THEN {}
    ELSE Leaves \cup
         {t \in {Obj(m) : m \in PartialMaps(TreesUpTo(n - 1))} : Size(t) <= n}

Trees == TreesUpTo(MaxNodes)

(***************************************************************************)
(* Diagnostics emitted by log::error!                                      *)
(***************************************************************************)
NoDiag == <<>>
Diag(path, kind) == <<[path |-> path, kind |-> kind]>>

\* Result of one call that completes without recursion
Ret(val, conflict, diag) ==
    [kind |-> "ret", val |-> val, conflict |-> conflict, diag |-> diag]

(***************************************************************************)
(* three_way_merge_recursive, the `_` arm: not all three are objects.      *)
(***************************************************************************)
\* variant: the `a == base` test yields a instead of b
Mut_merge_non_object(base_v, a_v, b_v, path) ==
    IF a_v = b_v THEN Ret(a_v, FALSE, NoDiag)
    ELSE IF a_v = base_v THEN Ret(a_v, FALSE, NoDiag)
    ELSE IF b_v = base_v THEN Ret(a_v, FALSE, NoDiag)
    ELSE Ret(a_v, TRUE, Diag(path, "different-contents"))

merge_non_object(base_v, a_v, b_v, path) ==
    IF a_v = b_v THEN Ret(a_v, FALSE, NoDiag)
    ELSE IF a_v = base_v THEN Ret(b_v, FALSE, NoDiag)
    ELSE IF b_v = base_v THEN Ret(a_v, FALSE, NoDiag)
    ELSE Ret(a_v, TRUE, Diag(path, "different-contents"))

(***************************************************************************)
(* merge_entry, one operator per match arm.  kind "rec" stands for the     *)
(* call of three_way_merge_recursive(base_val, a_val, b_val, path), whose  *)
(* result the arm wraps as (Some(merged_val), conflict); kind "panic" is   *)
(* the panic! of the (None, None, None) arm.                               *)
(***************************************************************************)
\* variant: the `b_val == base_val` test is missing
Mut_entry_all_present_no_b_test(base_val, a_val, b_val, path) ==
    IF a_val = b_val THEN Ret(a_val, FALSE, NoDiag)
    ELSE IF a_val = base_val THEN Ret(b_val, FALSE, NoDiag)
    ELSE IF is_object(a_val) /\ is_object(b_val) /\ is_object(base_val)
         THEN [kind |-> "rec"]
    ELSE Ret(a_val, TRUE, Diag(path, "modified-both"))

\* variant: a conflict keeps B's value
Mut_entry_all_present_b_wins(base_val, a_val, b_val, path) ==
    IF a_val = b_val THEN Ret(a_val, FALSE, NoDiag)
    ELSE IF a_val = base_val THEN Ret(b_val, FALSE, NoDiag)
    ELSE IF b_val = base_val THEN Ret(a_val, FALSE, NoDiag)
    ELSE IF is_object(a_val) /\ is_object(b_val) /\ is_object(base_val)
         THEN [kind |-> "rec"]
    ELSE Ret(b_val, TRUE, Diag(path, "modified-both"))

\* (Some(base_val), Some(a_val), Some(b_val))
entry_all_present(base_val, a_val, b_val, path) ==
    IF a_val = b_val THEN Ret(a_val, FALSE, NoDiag)
    ELSE IF a_val = base_val THEN Ret(b_val, FALSE, NoDiag)
    ELSE IF b_val = base_val THEN Ret(a_val, FALSE, NoDiag)
    ELSE IF is_object(a_val) /\ is_object(b_val) /\ is_object(base_val)
         THEN [kind |-> "rec"]
    ELSE Ret(a_val, TRUE, Diag(path, "modified-both"))

\* variant: the equality test is missing
Mut_entry_added_both_no_eq(a_val, b_val, path) ==
    Ret(a_val, TRUE, Diag(path, "added-both"))

\* variant: a conflict keeps B's value
Mut_entry_added_both_b_wins(a_val, b_val, path) ==
    IF a_val = b_val THEN Ret(a_val, FALSE, NoDiag)
    ELSE Ret(b_val, TRUE, Diag(path, "added-both"))

\* (None, Some(a_val), Some(b_val))
entry_added_both(a_val, b_val, path) ==
    IF a_val = b_val THEN Ret(a_val, FALSE, NoDiag)
    ELSE Ret(a_val, TRUE, Diag(path, "added-both"))

\* (Some(base_val), Some(a_val), None)
entry_deleted_in_b(base_val, a_val, path) ==
    IF a_val = base_val THEN Ret(NoneV, FALSE, NoDiag)
    ELSE Ret(a_val, TRUE, Diag(path, "modified-A-deleted-B"))

\* variant: the deletion wins over the modification
Mut_entry_deleted_in_a(base_val, b_val, path) ==
    IF b_val = base_val THEN Ret(NoneV, FALSE, NoDiag)
    ELSE Ret(NoneV, TRUE, Diag(path, "modified-B-deleted-A"))

\* (Some(base_val), None, Some(b_val))
entry_deleted_in_a(base_val, b_val, path) ==
    IF b_val = base_val THEN Ret(NoneV, FALSE, NoDiag)
    ELSE Ret(b_val, TRUE, Diag(path, "modified-B-deleted-A"))

merge_entry(base_e, a_e, b_e, path) ==
    IF base_e # NoneV /\ a_e # NoneV /\ b_e # NoneV THEN
        entry_all_present(base_e, a_e, b_e, path)
    ELSE IF base_e = NoneV /\ a_e # NoneV /\ b_e # NoneV THEN
        entry_added_both(a_e, b_e, path)
    ELSE IF base_e = NoneV /\ a_e # NoneV /\ b_e = NoneV THEN
        Ret(a_e, FALSE, NoDiag)
    ELSE IF base_e = NoneV /\ a_e = NoneV /\ b_e # NoneV THEN
        Ret(b_e, FALSE, NoDiag)
    ELSE IF base_e # NoneV /\ a_e # NoneV /\ b_e = NoneV THEN
        entry_deleted_in_b(base_e, a_e, path)
    ELSE IF base_e # NoneV /\ a_e = NoneV /\ b_e # NoneV THEN
        entry_deleted_in_a(base_e, b_e, path)
    ELSE IF base_e # NoneV /\ a_e = NoneV /\ b_e = NoneV THEN
        Ret(NoneV, FALSE, NoDiag)
    ELSE [kind |-> "panic"]

(***************************************************************************)
(* three_way_merge_recursive, the object arm.                              *)
(***************************************************************************)
\* variant: the keys of b_map are not chained in
Mut_union_keys_without_b(base_map, a_map, b_map) ==
    (DOMAIN base_map) \cup (DOMAIN a_map)

\* variant: every known key is enumerated, present or not
Mut_union_keys_all(base_map, a_map, b_map) == Keys

\* let keys: HashSet<String> = base_map.keys().chain(a_map.keys()).chain(b_map.keys())
union_keys(base_map, a_map, b_map) ==
    (DOMAIN base_map) \cup (DOMAIN a_map) \cup (DOMAIN b_map)

\* let current_path = if path.is_empty() { key } else { format!("{}/{}", path, key) }
current_path(path, key) == IF path = "" THEN key ELSE path \o "/" \o key

NoKey == ""

\* The locals of one activation: merged, had_conflict, the keys still to be
\* iterated, and the key whose merge_entry call is in progress.  `resolved`
\* records what merge_entry returned for each key already processed.
NewFrame(base_map, a_map, b_map, path) ==
    [base |-> base_map, a |-> a_map, b |-> b_map, path |-> path,
     keys |-> union_keys(base_map, a_map, b_map),
     merged |-> EmptyMap, had_conflict |-> FALSE,
     cur |-> NoKey, resolved |-> EmptyMap]

\* variant: had_conflict = conflict
Mut_set_conflict(had_conflict, conflict) == conflict

\* if conflict { had_conflict = true; }
set_conflict(had_conflict, conflict) == IF conflict THEN TRUE ELSE had_conflict

\* if let Some(val) = merged_val { merged.insert(key, val); }
insert_merged(merged, key, merged_val) ==
    IF merged_val # NoneV THEN insert(merged, key, merged_val) ELSE merged

\* variant: the loop is left at the first conflict
Mut_accumulate(f, key, merged_val, conflict) ==
    [f EXCEPT !.had_conflict = set_conflict(f.had_conflict, conflict),
              !.merged = insert_merged(f.merged, key, merged_val),
              !.keys = IF conflict THEN {} ELSE f.keys \ {key},
              !.cur = NoKey,
              !.resolved = insert(f.resolved, key,
                                  [val |-> merged_val, conflict |-> conflict])]

\* The loop body after merge_entry has returned (merged_val, conflict) for key
accumulate(f, key, merged_val, conflict) ==
    [f EXCEPT !.had_conflict = set_conflict(f.had_conflict, conflict),
              !.merged = insert_merged(f.merged, key, merged_val),
              !.keys = f.keys \ {key},
              !.cur = NoKey,
              !.resolved = insert(f.resolved, key,
                                  [val |-> merged_val, conflict |-> conflict])]

Top == stack[Len(stack)]
ReplaceTop(f) == [stack EXCEPT ![Len(stack)] = f]
Pop == SubSeq(stack, 1, Len(stack) - 1)

NoResult == [val |-> NoneV, conflict |-> FALSE]

Init ==
    /\ base \in Trees
    /\ a \in Trees
    /\ b \in Trees
    /\ pc = "start"
    /\ stack = <<>>
    /\ log = <<>>
    /\ result = NoResult

\* three_way_merge(base, a, b) = three_way_merge_recursive(base, a, b, "")
\* with three objects at the root: enter the object arm
CallObject ==
    /\ pc = "start"
    /\ is_object(base) /\ is_object(a) /\ is_object(b)
    /\ stack' = <<NewFrame(base.m, a.m, b.m, "")>>
    /\ pc' = "run"
    /\ UNCHANGED <<base, a, b, log, result>>

\* three_way_merge(base, a, b) where some root is not an object
CallOther ==
    /\ pc = "start"
    /\ ~(is_object(base) /\ is_object(a) /\ is_object(b))
    /\ LET r == merge_non_object(base, a, b, "")
       IN /\ result' = [val |-> r.val, conflict |-> r.conflict]
          /\ log' = log \o r.diag
    /\ pc' = "done"
    /\ UNCHANGED <<base, a, b, stack>>

\* One iteration of `for key in keys` whose merge_entry call does not recurse
ForKey ==
    /\ pc = "run"
    /\ Top.cur = NoKey
    /\ \E key \in Top.keys :
         LET f == Top
             r == merge_entry(get(f.base, key), get(f.a, key), get(f.b, key),
                              current_path(f.path, key))
         IN /\ r.kind # "rec"
            /\ IF r.kind = "panic"
               THEN /\ pc' = "panic"
                    /\ UNCHANGED <<stack, log>>
               ELSE /\ pc' = pc
                    /\ stack' = ReplaceTop(accumulate(f, key, r.val, r.conflict))
                    /\ log' = log \o r.diag
    /\ UNCHANGED <<base, a, b, result>>

\* One iteration whose merge_entry call reaches
\* three_way_merge_recursive(base_val, a_val, b_val, path)
Recurse ==
    /\ pc = "run"
    /\ Top.cur = NoKey
    /\ \E key \in Top.keys :
         LET f == Top
             base_val == get(f.base, key)
             a_val == get(f.a, key)
             b_val == get(f.b, key)
             path == current_path(f.path, key)
             r == merge_entry(base_val, a_val, b_val, path)
         IN /\ r.kind = "rec"
            /\ stack' = Append(ReplaceTop([f EXCEPT !.cur = key]),
                               NewFrame(base_val.m, a_val.m, b_val.m, path))
    /\ UNCHANGED <<base, a, b, pc, log, result>>

\* The loop is over: return (Value::Object(merged), had_conflict), either to
\* merge_entry and the caller's loop body, or out of three_way_merge
Return ==
    /\ pc = "run"
    /\ Top.cur = NoKey
    /\ Top.keys = {}
    /\ LET f == Top
           merged_val == Obj(f.merged)
       IN IF Len(stack) = 1
          THEN /\ result' = [val |-> merged_val, conflict |-> f.had_conflict]
               /\ stack' = <<>>
               /\ pc' = "done"
          ELSE LET p == stack[Len(stack) - 1]
               IN /\ stack' = [Pop EXCEPT ![Len(stack) - 1] =
                                  accumulate(p, p.cur, merged_val, f.had_conflict)]
                  /\ UNCHANGED <<pc, result>>
    /\ UNCHANGED <<base, a, b, log>>

Next == CallObject \/ CallOther \/ ForKey \/ Recurse \/ Return

Spec == Init /\ [][Next]_vars

(***************************************************************************)
(* Vocabulary of the properties.                                           *)
(***************************************************************************)
Done == pc = "done"

AllObjects(base_v, a_v, b_v) == is_object(base_v) /\ is_object(a_v) /\ is_object(b_v)

\* Positions: sequences of keys from the root
Paths == UNION {[1..n -> Keys] : n \in 0..(MaxNodes - 1)}

\* The entry of tree t at position p, NoneV when there is none
RECURSIVE At(_, _)
At(t, p) ==
    IF p = <<>> THEN t
    ELSE IF t.kind = "obj" /\ Head(p) \in DOMAIN t.m THEN At(t.m[Head(p)], Tail(p))
    ELSE NoneV

\* The slash-joined path of a position, "" for the root
RECURSIVE PathStr(_)
PathStr(p) ==
    IF p = <<>> THEN ""
    ELSE IF Len(p) = 1 THEN p[1]
    ELSE PathStr(SubSeq(p, 1, Len(p) - 1)) \o "/" \o p[Len(p)]

\* A diagnostic has been emitted for position p
ReportedAt(p) == \E i \in 1..Len(log) : log[i].path = PathStr(p)

ReportedKindAt(p, kind) ==
    \E i \in 1..Len(log) : log[i].path = PathStr(p) /\ log[i].kind = kind

Frames == {stack[i] : i \in 1..Len(stack)}

EntryKeys(f) == (DOMAIN f.base) \cup (DOMAIN f.a) \cup (DOMAIN f.b)

(***************************************************************************)
(* C1: three_way_merge(base, a, a) returns (a, false) for every tree a and *)
(* every base; in particular three_way_merge(T, T, T) = (T, false).        *)
(***************************************************************************)
Thm_C1 ==
    (Done /\ a = b) => result = [val |-> a, conflict |-> FALSE]

\* both branches made the same change to an object: a key added, a key removed
Wit_C1 ==
    /\ Done /\ a = b /\ a # base
    /\ AllObjects(base, a, b)
    /\ (DOMAIN a.m) \ (DOMAIN base.m) # {}
    /\ (DOMAIN base.m) \ (DOMAIN a.m) # {}
    /\ result.val = a

(***************************************************************************)
(* C2: if a = base then three_way_merge(base, a, b) = (b, false), and if   *)
(* b = base then it is (a, false), for leaf roots and for object roots     *)
(* merged key by key.                                                      *)
(***************************************************************************)
Thm_C2 ==
    /\ (Done /\ a = base) => result = [val |-> b, conflict |-> FALSE]
    /\ (Done /\ b = base) => result = [val |-> a, conflict |-> FALSE]

\* only B changed an object: it added one key and deleted another
Wit_C2 ==
    /\ Done /\ a = base /\ b # base
    /\ AllObjects(base, a, b)
    /\ (DOMAIN b.m) \ (DOMAIN base.m) # {}
    /\ (DOMAIN base.m) \ (DOMAIN b.m) # {}
    /\ result.val = b

(***************************************************************************)
(* C3: when at every key the merge reaches one side's entry equals base's  *)
(* entry (or the three entries are objects of which the same holds), no    *)
(* conflict is flagged and each merged entry is that of the side that      *)
(* changed it.                                                             *)
(***************************************************************************)
RECURSIVE Independent(_, _, _)
Independent(base_map, a_map, b_map) ==
    \A k \in (DOMAIN base_map) \cup (DOMAIN a_map) \cup (DOMAIN b_map) :
        LET be == get(base_map, k)
            ae == get(a_map, k)
            ce == get(b_map, k)
        IN \/ ae = be
           \/ ce = be
           \/ /\ AllObjects(be, ae, ce)
              /\ Independent(be.m, ae.m, ce.m)

RECURSIVE BothApplied(_, _, _, _)
BothApplied(base_map, a_map, b_map, merged) ==
    /\ DOMAIN merged \subseteq (DOMAIN base_map) \cup (DOMAIN a_map) \cup (DOMAIN b_map)
    /\ \A k \in (DOMAIN base_map) \cup (DOMAIN a_map) \cup (DOMAIN b_map) :
        LET be == get(base_map, k)
            ae == get(a_map, k)
            ce == get(b_map, k)
            me == get(merged, k)
        IN IF ae = be THEN me = ce
           ELSE IF ce = be THEN me = ae
           ELSE /\ is_object(me)
                /\ BothApplied(be.m, ae.m, ce.m, me.m)

Thm_C3 ==
    (Done /\ AllObjects(base, a, b) /\ Independent(base.m, a.m, b.m)) =>
        /\ result.conflict = FALSE
        /\ is_object(result.val)
        /\ BothApplied(base.m, a.m, b.m, result.val.m)

\* A and B changed different keys of the same object
Wit_C3 ==
    /\ Done /\ AllObjects(base, a, b) /\ Independent(base.m, a.m, b.m)
    /\ \E k1 \in DOMAIN base.m, k2 \in DOMAIN base.m :
          /\ k1 # k2
          /\ get(a.m, k1) # base.m[k1] /\ get(b.m, k1) = base.m[k1]
          /\ get(b.m, k2) # base.m[k2] /\ get(a.m, k2) = base.m[k2]
          /\ get(result.val.m, k1) = get(a.m, k1)
          /\ get(result.val.m, k2) = get(b.m, k2)

(***************************************************************************)
(* C4: at a position that is not merged recursively, where a and b are     *)
(* both present, a # b, a # base and b # base, the merged value is A's     *)
(* value and the conflict flag of three_way_merge is true.                 *)
(***************************************************************************)
DivergeAt(p) ==
    LET bv == At(base, p)
        av == At(a, p)
        cv == At(b, p)
    IN /\ av # NoneV /\ cv # NoneV
       /\ ~AllObjects(bv, av, cv)
       /\ av # cv /\ av # bv /\ cv # bv

Thm_C4 ==
    Done => \A p \in Paths :
               DivergeAt(p) => /\ At(result.val, p) = At(a, p)
                               /\ result.conflict = TRUE

\* a key of a nested object modified differently by both branches
Wit_C4 ==
    /\ Done
    /\ \E p \in Paths :
          /\ Len(p) = 2 /\ DivergeAt(p) /\ At(base, p) # NoneV
          /\ At(result.val, p) = At(a, p)
          /\ result.conflict

(***************************************************************************)
(* C5: for a key present in base, (1) deleted by one branch and unchanged  *)
(* by the other: absent from the merged object, no conflict flagged for    *)
(* it; (2) deleted by both: absent, no conflict; (3) deleted by one branch *)
(* and modified by the other: present with the modified entry and the      *)
(* conflict flag is true, whichever branch deleted it.                     *)
(***************************************************************************)
DeletionRule(base_e, a_e, b_e, merged_e, entry_conflict, flag) ==
    /\ ((a_e = NoneV /\ b_e = base_e) \/ (b_e = NoneV /\ a_e = base_e)) =>
          (merged_e = NoneV /\ entry_conflict = FALSE)
    /\ (a_e = NoneV /\ b_e = NoneV) =>
          (merged_e = NoneV /\ entry_conflict = FALSE)
    /\ (a_e = NoneV /\ b_e # NoneV /\ b_e # base_e) =>
          (merged_e = b_e /\ entry_conflict = TRUE /\ flag = TRUE)
    /\ (b_e = NoneV /\ a_e # NoneV /\ a_e # base_e) =>
          (merged_e = a_e /\ entry_conflict = TRUE /\ flag = TRUE)

Thm_C5 ==
    /\ \A f \in Frames : \A k \in (DOMAIN f.resolved) \cap (DOMAIN f.base) :
          DeletionRule(f.base[k], get(f.a, k), get(f.b, k), get(f.merged, k),
                       f.resolved[k].conflict, f.had_conflict)
    /\ (Done /\ AllObjects(base, a, b)) =>
          \A k \in DOMAIN base.m :
             (get(a.m, k) = NoneV \/ get(b.m, k) = NoneV) =>
                /\ is_object(result.val)
                /\ DeletionRule(base.m[k], get(a.m, k), get(b.m, k),
                                get(result.val.m, k), ReportedAt(<<k>>),
                                result.conflict)

\* one merge has met all three: a key A deleted and B modified, a key B
\* deleted and A left alone
Wit_C5 ==
    /\ Done /\ AllObjects(base, a, b)
    /\ \E k1 \in DOMAIN base.m, k2 \in DOMAIN base.m :
          /\ get(a.m, k1) = NoneV /\ get(b.m, k1) \notin {NoneV, base.m[k1]}
          /\ get(b.m, k2) = NoneV /\ get(a.m, k2) = base.m[k2]
          /\ DOMAIN result.val.m = {k1}
          /\ result.conflict

(***************************************************************************)
(* C6: the merge never aborts on a conflict, and at every position where a *)
(* conflict is reported the merged output is branch A's entry.             *)
(* As stated it fails: a key deleted in A and modified in B is reported    *)
(* and resolved to B's entry.                                              *)
(***************************************************************************)
Cex_C6 ==
    /\ pc # "panic"
    /\ Done => \A p \in Paths : ReportedAt(p) => At(result.val, p) = At(a, p)

\* C6 as amended: at every position where a conflict is reported the merged
\* output is A's entry, except that a key deleted in A and modified in B keeps
\* B's modified entry; the merge never aborts on a conflict.
Thm_C6 ==
    /\ pc # "panic"
    /\ (pc = "run" /\ log # <<>>) => ENABLED Next
    /\ Done => \A p \in Paths :
          /\ ReportedKindAt(p, "modified-B-deleted-A") =>
                (At(a, p) = NoneV /\ At(result.val, p) = At(b, p))
          /\ (ReportedAt(p) /\ ~ReportedKindAt(p, "modified-B-deleted-A")) =>
                At(result.val, p) = At(a, p)

\* both kinds in one merge: a key added differently by both (A's kept) and a
\* key deleted in A and modified in B (B's kept)
Wit_C6 ==
    /\ Done
    /\ \E p \in Paths, q \in Paths :
          /\ ReportedKindAt(p, "added-both") /\ At(result.val, p) = At(a, p)
          /\ ReportedKindAt(q, "modified-B-deleted-A")
          /\ At(result.val, q) = At(b, q)

(***************************************************************************)
(* C7: had_conflict returned by three_way_merge is true iff at least one   *)
(* conflict was reported (a diagnostic emitted) at some node or key at any *)
(* depth.                                                                  *)
(***************************************************************************)
Thm_C7 ==
    /\ Done => (result.conflict <=> log # <<>>)
    /\ pc = "run" => ((\E f \in Frames : f.had_conflict) <=> log # <<>>)

\* a conflict reported two levels down has reached the top-level flag
Wit_C7 ==
    /\ Done /\ result.conflict
    /\ \E p \in Paths : Len(p) = 2 /\ ReportedAt(p)

(***************************************************************************)
(* C8: at every object node merged key by key, the key set of the merged   *)
(* object is exactly the set of keys of the union whose merge_entry result *)
(* is a value, and each kept key holds the value its resolution produced.  *)
(***************************************************************************)
Thm_C8 ==
    \A f \in Frames :
       LET pending == IF f.cur = NoKey THEN {} ELSE {f.cur}
           resolved_keys == DOMAIN f.resolved
       IN /\ resolved_keys = (EntryKeys(f) \ f.keys) \ pending
          /\ f.keys \cup pending \subseteq EntryKeys(f)
          /\ DOMAIN f.merged = {k \in resolved_keys : f.resolved[k].val # NoneV}
          /\ \A k \in DOMAIN f.merged : f.merged[k] = f.resolved[k].val
          /\ \A k \in resolved_keys :
                LET r == merge_entry(get(f.base, k), get(f.a, k), get(f.b, k), "")
                IN r.kind = "ret" => f.resolved[k].val = r.val

\* a finished node: two keys resolved, one kept and one resolved as absent
Wit_C8 ==
    \E f \in Frames :
       /\ f.keys = {} /\ f.cur = NoKey
       /\ Cardinality(EntryKeys(f)) >= 2
       /\ \E k1 \in EntryKeys(f), k2 \in EntryKeys(f) :
             /\ f.resolved[k1].val = NoneV /\ k1 \notin DOMAIN f.merged
             /\ f.resolved[k2].val # NoneV /\ k2 \in DOMAIN f.merged

(***************************************************************************)
(* C9: the (None, None, None) arm of merge_entry is unreachable from       *)
(* three_way_merge: every merge_entry call has an entry present, and the   *)
(* merge runs on until it returns a result.                                *)
(***************************************************************************)
Thm_C9 ==
    /\ pc # "panic"
    /\ \A f \in Frames :
          \A k \in f.keys \cup (DOMAIN f.resolved) \cup ({f.cur} \ {NoKey}) :
             ~(get(f.base, k) = NoneV /\ get(f.a, k) = NoneV /\ get(f.b, k) = NoneV)
    /\ pc \in {"start", "run"} => ENABLED Next
    /\ pc = "run" <=> stack # <<>>

\* merge_entry has been called inside a nested object
Wit_C9 ==
    /\ pc = "run" /\ Len(stack) = 2
    /\ Top.resolved # EmptyMap

(***************************************************************************)
(* C10: the merged tree and the flag do not depend on the order in which   *)
(* the keys of the union are processed: every order ends in the result     *)
(* that is determined key by key from the inputs alone.                    *)
(***************************************************************************)
RECURSIVE KeyWise(_, _, _)
KeyWise(base_v, a_v, b_v) ==
    IF AllObjects(base_v, a_v, b_v)
    THEN LET ks == (DOMAIN base_v.m) \cup (DOMAIN a_v.m) \cup (DOMAIN b_v.m)
             R(k) == LET be == get(base_v.m, k)
                         ae == get(a_v.m, k)
                         ce == get(b_v.m, k)
                         r == merge_entry(be, ae, ce, "")
                     IN IF r.kind = "rec" THEN KeyWise(be, ae, ce)
                        ELSE [val |-> r.val, conflict |-> r.conflict]
         IN [val |-> Obj([k \in {x \in ks : R(x).val # NoneV} |-> R(k).val]),
             conflict |-> \E k \in ks : R(k).conflict]
    ELSE LET r == merge_non_object(base_v, a_v, b_v, "")
         IN [val |-> r.val, conflict |-> r.conflict]

Thm_C10 ==
    /\ pc # "panic"
    /\ Done => result = KeyWise(base, a, b)

\* the keys were processed against their listing order, both with a conflict
Wit_C10 ==
    /\ Done /\ Len(log) = 2
    /\ log[1].path = KeyNames[2]
    /\ log[2].path = KeyNames[1]
    /\ result = KeyWise(base, a, b)

=============================================================================
